---- MODULE Spec2Model ----
(***************************************************************************)
(* Model of the demo blog server (main.go): a gorilla/mux router with      *)
(* three routes, the prometheus instrumentation middleware, the hit        *)
(* counter middleware and the hits handler, together with the remote-write *)
(* decoder handleMetrics shown in the README.                              *)
(*                                                                         *)
(* Every request is served by its own goroutine; a goroutine's steps are   *)
(* the accesses it makes to shared state (the registry's counter vectors   *)
(* and the plain integer count).  Counter increments and reads of the      *)
(* prometheus client are single atomic machine operations; the increment   *)
(* of count is an unsynchronised load followed by a store.                 *)
(*                                                                         *)
(* Spec is the server under concurrent requests, SpecSequential the same   *)
(* server with one request served at a time, and SpecDecode a serving      *)
(* process handling remote-write requests with handleMetrics.              *)
(***************************************************************************)
EXTENDS Integers, Sequences, FiniteSets, Bags, TLC

\* ---------------------------------------------------------------- bounds
MaxRequests == 3        \* requests accepted during one process lifetime
MaxInFlight == 2        \* requests served concurrently
MaxSeries == 2          \* time series in one remote-write request
MaxSamples == 2         \* samples of one time series
MaxExemplars == 1       \* exemplars of one time series
MaxWriteHeaders == 2    \* WriteHeader calls of one inner handler

\* ------------------------------------------------------------- constants
StatusOK == 200
StatusBadRequest == 400
FracDigits == 6         \* digits fmt prints after the point for %f

\* router.Path(...) declarations of main, in declaration order
Routes == <<"/metrics", "/", "/hits">>

RouteSet == {Routes[i] : i \in 1..Len(Routes)}

\* the requests the environment sends: method and raw URL path
Inputs ==
  { [method |-> "GET",  url |-> "/"],
    [method |-> "GET",  url |-> "/hits"],
    [method |-> "GET",  url |-> "/metrics"],
    [method |-> "GET",  url |-> "/api/healthz"],
    [method |-> "GET",  url |-> "/api/hits"],
    [method |-> "POST", url |-> "/api/remote"] }

\* the requests sent when requests are served one at a time: those above,
\* the stylesheet the landing page links, and the root path by other methods
AllInputs ==
  Inputs \cup { [method |-> "GET",  url |-> "/w3.css"],
                [method |-> "POST", url |-> "/"],
                [method |-> "HEAD", url |-> "/"] }

\* status codes http.FileServer answers for the directory index
FsCodes == {200, 404}

\* the three collectors init registers, in the order of the exposition (by name)
FamilyOrder == <<"http_requests_total", "http_response_time_seconds", "response_status">>

Families == {FamilyOrder[i] : i \in 1..Len(FamilyOrder)}

\* ------------------------------------------------------ pure functions
\* the order in which init hands the collectors to prometheus.Register
InitOrder == <<"http_requests_total", "response_status", "http_response_time_seconds">>

\* variant: a collector that is already registered is registered once more
RegisterAgain(reg, c) == [reg |-> Append(reg, c), err |-> "nil"]

\* Registerer.Register: a collector whose descriptors are already registered
\* is refused with an AlreadyRegisteredError and the registry stays as it is
Register(reg, c) ==
  IF \E i \in 1..Len(reg) : reg[i] = c
    THEN [reg |-> reg, err |-> "AlreadyRegisteredError"]
    ELSE [reg |-> Append(reg, c), err |-> "nil"]

Digit(d) ==
  CASE d = 0 -> "0" [] d = 1 -> "1" [] d = 2 -> "2" [] d = 3 -> "3" [] d = 4 -> "4"
    [] d = 5 -> "5" [] d = 6 -> "6" [] d = 7 -> "7" [] d = 8 -> "8" [] d = 9 -> "9"

RECURSIVE Digits(_)
Digits(n) == IF n < 10 THEN Digit(n) ELSE Digits(n \div 10) \o Digit(n % 10)

\* strconv.Itoa
Itoa(n) == IF n < 0 THEN "-" \o Digits(0 - n) ELSE Digits(n)

\* variant: the label is the raw request path (r.URL.Path) of any request
MatchRouteRaw(url) == url

\* mux route matching: a Path template without variables matches the whole
\* request path and nothing else; the first declared route that matches wins.
\* "" stands for no match (mux.CurrentRoute would be nil).
MatchRoute(url) ==
  IF \E i \in 1..Len(Routes) : Routes[i] = url
    THEN Routes[CHOOSE i \in 1..Len(Routes) :
                  /\ Routes[i] = url
                  /\ \A j \in 1..(i - 1) : Routes[j] # url]
    ELSE ""

\* the router's NotFoundHandler (http.NotFound)
NotFoundResponse == [status |-> 404, body |-> "404 page not found\n"]

\* variant: creating a child replaces the children the vector already has
WithLabelValuesFresh(vec, key) ==
  IF key \in DOMAIN vec THEN vec ELSE (key :> 0)

\* vec.WithLabelValues(key): the child for key, created with value 0 when new
WithLabelValues(vec, key) ==
  IF key \in DOMAIN vec THEN vec ELSE vec @@ (key :> 0)

\* variant: the vector is built anew for every increment
IncFresh(vec, key) == (key :> 1)

\* vec.WithLabelValues(key).Inc(): the child for key (created at 0 when
\* missing) takes one atomic add
Inc(vec, key) ==
  [WithLabelValues(vec, key) EXCEPT ![key] = @ + 1]

\* variant: the timer is created but its duration is never observed
ObserveDurationNever(vec, key) == vec

\* timer.ObserveDuration(): one observation on the histogram child the timer
\* was created on
ObserveDuration(vec, key) ==
  [vec EXCEPT ![key] = @ + 1]

\* value of a series, 0 when the child does not exist yet
Value(vec, key) == IF key \in DOMAIN vec THEN vec[key] ELSE 0

\* variant: the wrapper delegates without recording the code
WriteHeaderNoRecord(rw, code) ==
  [rw EXCEPT !.sent = IF rw.sent = 0 THEN code ELSE rw.sent,
             !.calls = Append(rw.calls, code)]

\* responseWriter.WriteHeader: record the code in the wrapper, then delegate;
\* the embedded writer sends the first code only (later calls are superfluous)
WriteHeader(rw, code) ==
  [rw EXCEPT !.statusCode = code,
             !.sent = IF rw.sent = 0 THEN code ELSE rw.sent,
             !.calls = Append(rw.calls, code)]

\* w.Write on the embedded writer: sends 200 when no header was written yet
Write(rw, data) ==
  [rw EXCEPT !.sent = IF rw.sent = 0 THEN StatusOK ELSE rw.sent,
             !.body = data]

\* ------------------------------------------------------------------ state
VARIABLES
  server,          \* "loading", "init", "starting", "serving" or "exited"
  count,           \* var count int
  totalRequests,   \* http_requests_total: path -> value
  responseStatus,  \* response_status: status -> value
  httpDuration,    \* http_response_time_seconds: path -> number of observations
  req,             \* the requests being served, one goroutine each (a bag)
  started,         \* number of requests accepted so far
  completed,       \* route template -> requests whose middleware has returned
  polled,          \* series -> largest value a completed /metrics poll reported
  overlap,         \* whether two requests to / have been in flight together
  defaultRegisterer, \* prometheus.DefaultRegisterer: the custom collectors it holds
  initErrs,        \* what the calls of prometheus.Register in init returned
  wire,            \* handleMetrics: what remote.DecodeWriteRequest(r.Body) returns
  dec              \* handleMetrics: position, standard output and response

\* the state of the server of main.go
svars == <<server, count, totalRequests, responseStatus, httpDuration, req,
           started, completed, polled, overlap, defaultRegisterer, initErrs>>

\* the state of one call of handleMetrics
dvars == <<wire, dec>>

vars == <<server, count, totalRequests, responseStatus, httpDuration, req,
          started, completed, polled, overlap, defaultRegisterer, initErrs,
          wire, dec>>

EmptyFn == [x \in {} |-> 0]

\* a request as the server accepts it; path "" until a route has matched
NewRequest(in) ==
  [pc |-> "accepted", method |-> in.method, url |-> in.url, path |-> "",
   handler |-> "",
   statusCode |-> 0, sent |-> 0, calls |-> <<>>, body |-> "",
   tmp |-> 0, key |-> "", collected |-> {}, out |-> EmptyFn,
   base |-> EmptyFn]

\* series of one family as rendered by the registry: <<name, label>> -> value
FamilyVec(fam) ==
  CASE fam = "http_requests_total" -> totalRequests
    [] fam = "response_status" -> responseStatus
    [] fam = "http_response_time_seconds" -> httpDuration

\* variant: a child is read in two halves (of one bit each), the low half
\* before and the high half after an increment that runs in between
CollectTorn(fam) ==
  [x \in {<<fam, k>> : k \in DOMAIN FamilyVec(fam)} |->
     2 * ((FamilyVec(fam)[x[2]] + 1) \div 2) + (FamilyVec(fam)[x[2]] % 2)]

\* what the registry reports for one family: every child, read atomically
Collect(fam) ==
  [x \in {<<fam, k>> : k \in DOMAIN FamilyVec(fam)} |-> FamilyVec(fam)[x[2]]]

Registry ==
  Collect("http_requests_total") @@ Collect("response_status")
    @@ Collect("http_response_time_seconds")

\* ------------------------------------------- handleMetrics: pure functions
\* model.MetricNameLabel
MetricNameLabel == "__name__"

\* the label names of the payloads below, as sort.Strings orders them
LabelOrder == <<"__name__", "instance", "job", "trace_id">>

RECURSIVE Pow10(_)
Pow10(n) == IF n = 0 THEN 1 ELSE 10 * Pow10(n - 1)

\* n in exactly w decimal digits
RECURSIVE ZeroPad(_, _)
ZeroPad(n, w) == IF w = 0 THEN "" ELSE ZeroPad(n \div 10, w - 1) \o Digit(n % 10)

\* fmt's %f of a value held in units of 10^-FracDigits
FormatF(v) ==
  Itoa(v \div Pow10(FracDigits)) \o "." \o ZeroPad(v % Pow10(FracDigits), FracDigits)

\* fmt's %q of a string without special characters
Quote(s) == "\"" \o s \o "\""

RECURSIVE Join(_, _)
Join(ss, sep) ==
  IF ss = <<>> THEN ""
  ELSE IF Len(ss) = 1 THEN ss[1]
  ELSE ss[1] \o sep \o Join(Tail(ss), sep)

\* m := make(model.Metric); for _, l := range labels { m[l.Name] = l.Value }
LabelMap(labels) ==
  [n \in {labels[i].name : i \in DOMAIN labels} |->
     labels[CHOOSE i \in DOMAIN labels :
              /\ labels[i].name = n
              /\ \A j \in DOMAIN labels : labels[j].name = n => j <= i].value]

\* model.Metric.String(): the metric name, then the other labels sorted
MetricString(m) ==
  LET Other(n) == n \in DOMAIN m /\ n # MetricNameLabel
      names == SelectSeq(LabelOrder, Other)
      name == IF MetricNameLabel \in DOMAIN m THEN m[MetricNameLabel] ELSE ""
  IN IF names = <<>>
       THEN (IF MetricNameLabel \in DOMAIN m THEN name ELSE "{}")
       ELSE name \o "{"
              \o Join([i \in 1..Len(names) |-> names[i] \o "=" \o Quote(m[names[i]])], ", ")
              \o "}"

\* fmt.Println(m)
SeriesLine(ts) == MetricString(LabelMap(ts.labels)) \o "\n"

\* fmt.Printf("\tSample:  %f %d\n", s.Value, s.Timestamp)
SampleLine(s) ==
  "\tSample:  " \o FormatF(s.value) \o " " \o Itoa(s.timestamp) \o "\n"

\* fmt.Printf("\tExemplar:  %+v %f %d\n", m, e.Value, e.Timestamp)
ExemplarLine(e) ==
  "\tExemplar:  " \o MetricString(LabelMap(e.labels)) \o " " \o FormatF(e.value)
     \o " " \o Itoa(e.timestamp) \o "\n"

\* ---------------------------------------------- handleMetrics: the inputs
Label(n, v) == [name |-> n, value |-> v]

\* label lists of a time series (names unique, not necessarily sorted)
LabelLists ==
  { <<Label("job", "test")>>,
    <<Label("__name__", "up")>>,
    <<Label("__name__", "up"), Label("job", "test"), Label("instance", "a")>> }

\* the j-th sample of a series: 1.0 at 1000, 2.5 at 2000, ...
Sample(j) == [value |-> (3 * j - 1) * (Pow10(FracDigits) \div 2), timestamp |-> 1000 * j]

\* the j-th exemplar of a series: 0.5 at 1001, 1.0 at 2001, ...
Exemplar(j) ==
  [labels |-> <<Label("trace_id", "abc")>>,
   value |-> j * (Pow10(FracDigits) \div 2), timestamp |-> 1000 * j + 1]

SeriesSet ==
  { [labels |-> l, samples |-> [j \in 1..n |-> Sample(j)],
     exemplars |-> [j \in 1..k |-> Exemplar(j)]] :
      l \in LabelLists, n \in 0..MaxSamples, k \in 0..MaxExemplars }

\* what remote.DecodeWriteRequest returns: a request, or an error
Payloads ==
  { [err |-> "", timeseries |-> s] :
      s \in UNION {[1..n -> SeriesSet] : n \in 0..MaxSeries} }
    \cup { [err |-> "snappy: corrupt input", timeseries |-> <<>>] }

NoPayload == [err |-> "", timeseries |-> <<>>]

\* stdout holds the lines the present call has printed; failed tells whether
\* an earlier call of this process ended in a decode error
NotCalled ==
  [pc |-> "idle", ti |-> 0, si |-> 0, stdout |-> <<>>, status |-> 0, body |-> "",
   failed |-> FALSE]

ServerInit ==
  /\ server = "starting"
  /\ count = 0
  /\ totalRequests = EmptyFn
  /\ responseStatus = EmptyFn
  /\ httpDuration = EmptyFn
  /\ req = EmptyBag
  /\ started = 0
  /\ completed = [r \in RouteSet |-> 0]
  /\ polled = EmptyFn
  /\ overlap = FALSE
  /\ defaultRegisterer = <<"http_response_time_seconds", "http_requests_total",
                           "response_status">>
  /\ initErrs = <<"nil", "nil", "AlreadyRegisteredError">>

Init ==
  /\ ServerInit
  /\ wire = NoPayload
  /\ dec = NotCalled

\* --------------------------------------------------------------- helpers
InFlight == BagToSet(req)

\* the server can take one more request
CanAccept ==
  /\ server = "serving"
  /\ started < MaxRequests
  /\ BagCardinality(req) < MaxInFlight

\* the goroutine serving r moves on to r2 / returns
Step(r, r2) == (req (-) SetToBag({r})) (+) SetToBag({r2})

Return(r) == req (-) SetToBag({r})

\* pointwise maximum of the values two polls reported
MergePolls(p, q) ==
  [x \in DOMAIN p \cup DOMAIN q |->
     IF x \notin DOMAIN q THEN p[x]
     ELSE IF x \notin DOMAIN p THEN q[x]
     ELSE IF p[x] >= q[x] THEN p[x] ELSE q[x]]

\* ---------------------------------------------------------------- actions
\* variant: ListenAndServe is called again after it has failed
ListenOKRetry ==
  /\ server \in {"starting", "exited"}
  /\ server' = "serving"
  /\ UNCHANGED <<count, totalRequests, responseStatus, httpDuration, req,
                 started, completed, polled>>
  /\ UNCHANGED <<overlap, defaultRegisterer, initErrs, wire, dec>>

\* http.ListenAndServe(":2112", router) binds and starts accepting
ListenOK ==
  /\ server = "starting"
  /\ server' = "serving"
  /\ UNCHANGED <<count, totalRequests, responseStatus, httpDuration, req,
                 started, completed, polled>>
  /\ UNCHANGED <<overlap, defaultRegisterer, initErrs, wire, dec>>

\* http.ListenAndServe returns an error; log.Fatal(err) exits the process
ListenFail ==
  /\ server = "starting"
  /\ server' = "exited"
  /\ UNCHANGED <<count, totalRequests, responseStatus, httpDuration, req,
                 started, completed, polled>>
  /\ UNCHANGED <<overlap, defaultRegisterer, initErrs, wire, dec>>

\* a request no declared route matches: the router answers with its
\* NotFoundHandler and runs no middleware
NotFound(in) ==
  /\ CanAccept
  /\ MatchRoute(in.url) = ""
  /\ req' = req (+) SetToBag({[NewRequest(in) EXCEPT
                                 !.pc = "answered",
                                 !.handler = "NotFoundHandler",
                                 !.sent = NotFoundResponse.status,
                                 !.body = NotFoundResponse.body]})
  /\ started' = started + 1
  /\ UNCHANGED <<server, count, totalRequests, responseStatus, httpDuration,
                 completed, polled>>
  /\ UNCHANGED <<overlap, defaultRegisterer, initErrs, wire, dec>>

\* the connection of an unmatched request is finished
Close(r) ==
  /\ r.pc = "answered"
  /\ req' = Return(r)
  /\ UNCHANGED <<server, count, totalRequests, responseStatus, httpDuration,
                 started, completed, polled>>
  /\ UNCHANGED <<overlap, defaultRegisterer, initErrs, wire, dec>>

\* variant: the request is counted in http_requests_total at entry, before
\* the inner handler runs
MiddlewareEnterCounted(in) ==
  /\ CanAccept
  /\ MatchRoute(in.url) # ""
  /\ httpDuration' = WithLabelValues(httpDuration, MatchRoute(in.url))
  /\ totalRequests' = Inc(totalRequests, MatchRoute(in.url))
  /\ req' = req (+) SetToBag({[NewRequest(in) EXCEPT
                                 !.pc = "next",
                                 !.path = MatchRoute(in.url),
                                 !.statusCode = StatusOK,
                                 !.base = IF MatchRoute(in.url) = "/metrics"
                                            THEN polled ELSE EmptyFn]})
  /\ started' = started + 1
  /\ UNCHANGED <<server, count, responseStatus, completed, polled>>
  /\ overlap' = (overlap \/ (MatchRoute(in.url) = "/"
                                   /\ \E q \in InFlight : q.path = "/"))
  /\ UNCHANGED <<defaultRegisterer, initErrs, wire, dec>>

\* prometheusMiddleware up to the call of next.ServeHTTP: resolve the route
\* template, create the timer on the histogram child, wrap the writer
MiddlewareEnter(in) ==
  /\ CanAccept
  /\ MatchRoute(in.url) # ""
  /\ httpDuration' = WithLabelValues(httpDuration, MatchRoute(in.url))
  /\ req' = req (+) SetToBag({[NewRequest(in) EXCEPT
                                 !.pc = "next",
                                 !.path = MatchRoute(in.url),
                                 !.statusCode = StatusOK,
                                 !.base = IF MatchRoute(in.url) = "/metrics"
                                            THEN polled ELSE EmptyFn]})
  /\ started' = started + 1
  /\ UNCHANGED <<server, count, totalRequests, responseStatus, completed, polled>>
  /\ overlap' = (overlap \/ (MatchRoute(in.url) = "/"
                                   /\ \E q \in InFlight : q.path = "/"))
  /\ UNCHANGED <<defaultRegisterer, initErrs, wire, dec>>

\* variant: the hit counter takes a lock before the load and never releases
\* it, so a request to / waits for every earlier one
HitLoadLocked(r) ==
  /\ r.pc = "next"
  /\ r.path = "/"
  /\ completed["/"] = 0
  /\ \A q \in InFlight : q.path = "/" => q.pc = "next"
  /\ req' = Step(r, [r EXCEPT !.tmp = count, !.pc = "store"])
  /\ UNCHANGED <<server, count, totalRequests, responseStatus, httpDuration,
                 started, completed, polled>>
  /\ UNCHANGED <<overlap, defaultRegisterer, initErrs, wire, dec>>

\* hitCounterMiddleware, count += 1: the load
HitLoad(r) ==
  /\ r.pc = "next"
  /\ r.path = "/"
  /\ req' = Step(r, [r EXCEPT !.tmp = count, !.pc = "store"])
  /\ UNCHANGED <<server, count, totalRequests, responseStatus, httpDuration,
                 started, completed, polled>>
  /\ UNCHANGED <<overlap, defaultRegisterer, initErrs, wire, dec>>

\* variant: only GET requests are counted
HitStoreGetOnly(r) ==
  /\ r.pc = "store"
  /\ count' = IF r.method = "GET" THEN r.tmp + 1 ELSE count
  /\ req' = Step(r, [r EXCEPT !.tmp = 0, !.pc = "fs"])
  /\ UNCHANGED <<server, totalRequests, responseStatus, httpDuration,
                 started, completed, polled>>
  /\ UNCHANGED <<overlap, defaultRegisterer, initErrs, wire, dec>>

\* variant: the middleware counts every hit twice
HitStoreTwice(r) ==
  /\ r.pc = "store"
  /\ count' = r.tmp + 2
  /\ req' = Step(r, [r EXCEPT !.tmp = 0, !.pc = "fs"])
  /\ UNCHANGED <<server, totalRequests, responseStatus, httpDuration,
                 started, completed, polled>>
  /\ UNCHANGED <<overlap, defaultRegisterer, initErrs, wire, dec>>

\* hitCounterMiddleware, count += 1: the store
HitStore(r) ==
  /\ r.pc = "store"
  /\ count' = r.tmp + 1
  /\ req' = Step(r, [r EXCEPT !.tmp = 0, !.pc = "fs"])
  /\ UNCHANGED <<server, totalRequests, responseStatus, httpDuration,
                 started, completed, polled>>
  /\ UNCHANGED <<overlap, defaultRegisterer, initErrs, wire, dec>>

\* http.FileServer serving the directory index of ./static
FileServer(r, code) ==
  /\ r.pc = "fs"
  /\ req' = Step(r, [WriteHeader(r, code) EXCEPT !.pc = "status",
                                                 !.handler = "FileServer"])
  /\ UNCHANGED <<server, count, totalRequests, responseStatus, httpDuration,
                 started, completed, polled>>
  /\ UNCHANGED <<overlap, defaultRegisterer, initErrs, wire, dec>>

\* variant: reading the hit count counts as a hit
HandleHitCounted(r) ==
  /\ r.pc = "next"
  /\ r.path = "/hits"
  /\ count' = count + 1
  /\ req' = Step(r, [Write(r, Itoa(count)) EXCEPT !.pc = "status",
                                                  !.handler = "handleHit"])
  /\ UNCHANGED <<server, totalRequests, responseStatus, httpDuration,
                 started, completed, polled>>
  /\ UNCHANGED <<overlap, defaultRegisterer, initErrs, wire, dec>>

\* handleHit: w.Write([]byte(strconv.Itoa(count)))
HandleHit(r) ==
  /\ r.pc = "next"
  /\ r.path = "/hits"
  /\ req' = Step(r, [Write(r, Itoa(count)) EXCEPT !.pc = "status",
                                                  !.handler = "handleHit"])
  /\ UNCHANGED <<server, count, totalRequests, responseStatus, httpDuration,
                 started, completed, polled>>
  /\ UNCHANGED <<overlap, defaultRegisterer, initErrs, wire, dec>>

\* variant: the registry counts each collection as a request to the path
GatherCounted(r, fam) ==
  /\ r.pc = "next"
  /\ r.path = "/metrics"
  /\ fam = FamilyOrder[Cardinality(r.collected) + 1]
  /\ totalRequests' = Inc(totalRequests, r.path)
  /\ LET r1 == [r EXCEPT !.collected = @ \cup {fam},
                         !.out = @ @@ Collect(fam)]
     IN /\ req' = Step(r, IF r1.collected = Families
                            THEN [Write(r1, "exposition") EXCEPT
                                    !.pc = "status", !.handler = "promhttp.Handler"]
                            ELSE r1)
        /\ polled' = IF r1.collected = Families
                       THEN MergePolls(polled, r1.out) ELSE polled
  /\ UNCHANGED <<server, count, responseStatus, httpDuration, started, completed>>
  /\ UNCHANGED <<overlap, defaultRegisterer, initErrs, wire, dec>>

\* promhttp.Handler(): the registry reads the families one at a time (each
\* child with one atomic load) and the text is written once all are read.
\* The families are taken in exposition order; what is stated about polls
\* below is stated per series.  A poll is complete when its text is written.
Gather(r, fam) ==
  /\ r.pc = "next"
  /\ r.path = "/metrics"
  /\ fam = FamilyOrder[Cardinality(r.collected) + 1]
  /\ LET r1 == [r EXCEPT !.collected = @ \cup {fam},
                         !.out = @ @@ Collect(fam)]
     IN /\ req' = Step(r, IF r1.collected = Families
                            THEN [Write(r1, "exposition") EXCEPT
                                    !.pc = "status", !.handler = "promhttp.Handler"]
                            ELSE r1)
        /\ polled' = IF r1.collected = Families
                       THEN MergePolls(polled, r1.out) ELSE polled
  /\ UNCHANGED <<server, count, totalRequests, responseStatus, httpDuration,
                 started, completed>>
  /\ UNCHANGED <<overlap, defaultRegisterer, initErrs, wire, dec>>

\* variant: the status of the response is not counted
StatusIncSkipped(r) ==
  /\ r.pc = "status"
  /\ req' = Step(r, [r EXCEPT !.key = Itoa(r.statusCode), !.pc = "total",
                               !.collected = {}, !.out = EmptyFn,
                               !.base = EmptyFn])
  /\ UNCHANGED <<server, count, totalRequests, responseStatus, httpDuration,
                 started, completed, polled>>
  /\ UNCHANGED <<overlap, defaultRegisterer, initErrs, wire, dec>>

\* responseStatus.WithLabelValues(strconv.Itoa(statusCode)).Inc().  The
\* handler has returned, so what it gathered is no longer held.
StatusInc(r) ==
  /\ r.pc = "status"
  /\ responseStatus' = Inc(responseStatus, Itoa(r.statusCode))
  /\ req' = Step(r, [r EXCEPT !.key = Itoa(r.statusCode), !.pc = "total",
                               !.collected = {}, !.out = EmptyFn,
                               !.base = EmptyFn])
  /\ UNCHANGED <<server, count, totalRequests, httpDuration, started,
                 completed, polled>>
  /\ UNCHANGED <<overlap, defaultRegisterer, initErrs, wire, dec>>

\* variant: every request is counted under the path /
TotalIncRoot(r) ==
  /\ r.pc = "total"
  /\ totalRequests' = Inc(totalRequests, "/")
  /\ req' = Step(r, [r EXCEPT !.pc = "observe"])
  /\ UNCHANGED <<server, count, responseStatus, httpDuration, started,
                 completed, polled>>
  /\ UNCHANGED <<overlap, defaultRegisterer, initErrs, wire, dec>>

\* totalRequests.WithLabelValues(path).Inc()
TotalInc(r) ==
  /\ r.pc = "total"
  /\ totalRequests' = Inc(totalRequests, r.path)
  /\ req' = Step(r, [r EXCEPT !.pc = "observe"])
  /\ UNCHANGED <<server, count, responseStatus, httpDuration, started,
                 completed, polled>>
  /\ UNCHANGED <<overlap, defaultRegisterer, initErrs, wire, dec>>

\* timer.ObserveDuration(), after which the middleware returns and the
\* goroutine ends
Observe(r) ==
  /\ r.pc = "observe"
  /\ httpDuration' = ObserveDuration(httpDuration, r.path)
  /\ completed' = [completed EXCEPT ![r.path] = @ + 1]
  /\ req' = Return(r)
  /\ UNCHANGED <<server, count, totalRequests, responseStatus, started, polled>>
  /\ UNCHANGED <<overlap, defaultRegisterer, initErrs, wire, dec>>

Next ==
  \/ ListenOK
  \/ ListenFail
  \/ \E in \in Inputs : NotFound(in)
  \/ \E r \in InFlight : Close(r)
  \/ \E in \in Inputs : MiddlewareEnter(in)
  \/ \E r \in InFlight : HitLoad(r)
  \/ \E r \in InFlight : HitStore(r)
  \/ \E r \in InFlight, code \in FsCodes : FileServer(r, code)
  \/ \E r \in InFlight : HandleHit(r)
  \/ \E r \in InFlight, fam \in Families : Gather(r, fam)
  \/ \E r \in InFlight : StatusInc(r)
  \/ \E r \in InFlight : TotalInc(r)
  \/ \E r \in InFlight : Observe(r)

Spec == Init /\ [][Next]_vars

\* the next step of the goroutine serving the instrumented request r
RequestStep(r) ==
  \/ HitLoad(r)
  \/ HitStore(r)
  \/ \E code \in FsCodes : FileServer(r, code)
  \/ HandleHit(r)
  \/ \E fam \in Families : Gather(r, fam)
  \/ StatusInc(r)
  \/ TotalInc(r)
  \/ Observe(r)

\* some goroutine serving an instrumented request takes its next step
Serve == \E r \in InFlight : RequestStep(r)

\* the server under a fair scheduler: as long as a goroutine can run, one
\* eventually does
SpecFair == Init /\ [][Next]_vars /\ WF_vars(Serve)

\* the package variables before their initialisers have run
InitProcess ==
  /\ server = "loading"
  /\ count = 0
  /\ totalRequests = EmptyFn
  /\ responseStatus = EmptyFn
  /\ httpDuration = EmptyFn
  /\ req = EmptyBag
  /\ started = 0
  /\ completed = [r \in RouteSet |-> 0]
  /\ polled = EmptyFn
  /\ overlap = FALSE
  /\ defaultRegisterer = <<>>
  /\ initErrs = <<>>
  /\ wire = NoPayload
  /\ dec = NotCalled

\* var httpDuration = promauto.NewHistogramVec(...): promauto creates the
\* histogram and registers it with MustRegister, which panics on an error
PromautoNewHistogramVec ==
  /\ server = "loading"
  /\ LET res == Register(defaultRegisterer, "http_response_time_seconds")
     IN /\ defaultRegisterer' = res.reg
        /\ server' = IF res.err = "nil" THEN "init" ELSE "exited"
  /\ UNCHANGED <<count, totalRequests, responseStatus, httpDuration, req,
                 started, completed, polled, overlap, initErrs, wire, dec>>

\* init: the next prometheus.Register(...) statement; its result is dropped.
\* After the third statement main runs.
InitRegister ==
  /\ server = "init"
  /\ LET res == Register(defaultRegisterer, InitOrder[Len(initErrs) + 1])
     IN /\ defaultRegisterer' = res.reg
        /\ initErrs' = Append(initErrs, res.err)
  /\ server' = IF Len(initErrs) + 1 = Len(InitOrder) THEN "starting" ELSE "init"
  /\ UNCHANGED <<count, totalRequests, responseStatus, httpDuration, req,
                 started, completed, polled, overlap, wire, dec>>

\* the whole process: package initialisation, init, then main
NextProcess ==
  \/ PromautoNewHistogramVec
  \/ InitRegister
  \/ ListenOK
  \/ ListenFail
  \/ \E in \in Inputs : NotFound(in)
  \/ \E r \in InFlight : Close(r)
  \/ \E in \in Inputs : MiddlewareEnter(in)
  \/ \E r \in InFlight : HitLoad(r)
  \/ \E r \in InFlight : HitStore(r)
  \/ \E r \in InFlight, code \in FsCodes : FileServer(r, code)
  \/ \E r \in InFlight : HandleHit(r)
  \/ \E r \in InFlight, fam \in Families : Gather(r, fam)
  \/ \E r \in InFlight : StatusInc(r)
  \/ \E r \in InFlight : TotalInc(r)
  \/ \E r \in InFlight : Observe(r)

SpecProcess == InitProcess /\ [][NextProcess]_vars

\* the same server when its clients send one request at a time: a request is
\* accepted only when no other is being served
NextSequential ==
  \/ ListenOK
  \/ ListenFail
  \/ \E in \in AllInputs : req = EmptyBag /\ NotFound(in)
  \/ \E r \in InFlight : Close(r)
  \/ \E in \in AllInputs : req = EmptyBag /\ MiddlewareEnter(in)
  \/ \E r \in InFlight : HitLoad(r)
  \/ \E r \in InFlight : HitStore(r)
  \/ \E r \in InFlight, code \in FsCodes : FileServer(r, code)
  \/ \E r \in InFlight : HandleHit(r)
  \/ \E r \in InFlight, fam \in Families : Gather(r, fam)
  \/ \E r \in InFlight : StatusInc(r)
  \/ \E r \in InFlight : TotalInc(r)
  \/ \E r \in InFlight : Observe(r)

SpecSequential == Init /\ [][NextSequential]_vars

\* ------------------------------------- the middleware around any handler
\* status codes an inner handler may pass to WriteHeader
HandlerCodes == {StatusOK, 404, 500}

\* an inner handler (any http.Handler bound to the route) calls
\* rw.WriteHeader(code) on the wrapper the middleware handed it
AnyWriteHeader(r, code) ==
  /\ r.pc = "next"
  /\ Len(r.calls) < MaxWriteHeaders
  /\ req' = Step(r, WriteHeader(r, code))
  /\ UNCHANGED <<server, count, totalRequests, responseStatus, httpDuration,
                 started, completed, polled>>
  /\ UNCHANGED <<overlap, defaultRegisterer, initErrs, wire, dec>>

\* the inner handler returns; a response without an explicit header is sent
\* with status 200 by the server
AnyReturn(r) ==
  /\ r.pc = "next"
  /\ req' = Step(r, [r EXCEPT !.pc = "status", !.handler = "any",
                               !.sent = IF r.sent = 0 THEN StatusOK ELSE r.sent])
  /\ UNCHANGED <<server, count, totalRequests, responseStatus, httpDuration,
                 started, completed, polled>>
  /\ UNCHANGED <<overlap, defaultRegisterer, initErrs, wire, dec>>

\* prometheusMiddleware and responseWriter around an arbitrary inner handler,
\* one request at a time
NextWrapper ==
  \/ ListenOK
  \/ ListenFail
  \/ \E in \in Inputs : req = EmptyBag /\ NotFound(in)
  \/ \E r \in InFlight : Close(r)
  \/ \E in \in Inputs : req = EmptyBag /\ MiddlewareEnter(in)
  \/ \E r \in InFlight, code \in HandlerCodes : AnyWriteHeader(r, code)
  \/ \E r \in InFlight : AnyReturn(r)
  \/ \E r \in InFlight : StatusInc(r)
  \/ \E r \in InFlight : TotalInc(r)
  \/ \E r \in InFlight : Observe(r)

SpecWrapper == Init /\ [][NextWrapper]_vars

\* ------------------------------------------------ handleMetrics: the steps
\* a serving process that has answered one GET / and no remote-write request
InitDecode ==
  /\ server = "serving"
  /\ count = 1
  /\ totalRequests = ("/" :> 1)
  /\ responseStatus = (Itoa(StatusOK) :> 1)
  /\ httpDuration = ("/" :> 1)
  /\ req = EmptyBag
  /\ started = 1
  /\ completed = [r \in RouteSet |-> IF r = "/" THEN 1 ELSE 0]
  /\ polled = EmptyFn
  /\ overlap = FALSE
  /\ defaultRegisterer = <<"http_response_time_seconds", "http_requests_total",
                           "response_status">>
  /\ initErrs = <<"nil", "nil", "AlreadyRegisteredError">>
  /\ wire = NoPayload
  /\ dec = NotCalled

\* the time series the range loop is at
CurrentSeries == wire.timeseries[dec.ti]

\* variant: a decode error ends the process (log.Fatal)
DecodeFailFatal ==
  /\ dec.pc = "decode"
  /\ wire.err # ""
  /\ server' = "exited"
  /\ dec' = [dec EXCEPT !.pc = "done"]
  /\ UNCHANGED <<count, totalRequests, responseStatus, httpDuration, req,
                 started, completed, polled, overlap, defaultRegisterer,
                 initErrs, wire>>

\* err != nil: http.Error(w, err.Error(), http.StatusBadRequest); return.
\* http.Error prints the message with Fprintln, so the body ends in a newline.
DecodeFail ==
  /\ dec.pc = "decode"
  /\ wire.err # ""
  /\ dec' = [dec EXCEPT !.pc = "done", !.status = StatusBadRequest,
                        !.body = wire.err \o "\n"]
  /\ UNCHANGED <<svars, wire>>

\* err == nil: enter the loop over req.Timeseries
DecodeOK ==
  /\ dec.pc = "decode"
  /\ wire.err = ""
  /\ dec' = [dec EXCEPT !.pc = "series", !.ti = 1]
  /\ UNCHANGED <<svars, wire>>

\* variant: the label set of a series is not printed
PrintSeriesOmitted ==
  /\ dec.pc = "series"
  /\ dec.ti <= Len(wire.timeseries)
  /\ dec' = [dec EXCEPT !.pc = "samples", !.si = 1]
  /\ UNCHANGED <<svars, wire>>

\* build m from ts.Labels; fmt.Println(m)
PrintSeries ==
  /\ dec.pc = "series"
  /\ dec.ti <= Len(wire.timeseries)
  /\ dec' = [dec EXCEPT !.stdout = Append(@, SeriesLine(CurrentSeries)),
                        !.pc = "samples", !.si = 1]
  /\ UNCHANGED <<svars, wire>>

\* one turn of the loop over ts.Samples
PrintSample ==
  /\ dec.pc = "samples"
  /\ dec.si <= Len(CurrentSeries.samples)
  /\ dec' = [dec EXCEPT !.stdout = Append(@, SampleLine(CurrentSeries.samples[dec.si])),
                        !.si = @ + 1]
  /\ UNCHANGED <<svars, wire>>

\* the loop over ts.Samples ends, the loop over ts.Exemplars begins
EndSamples ==
  /\ dec.pc = "samples"
  /\ dec.si > Len(CurrentSeries.samples)
  /\ dec' = [dec EXCEPT !.pc = "exemplars", !.si = 1]
  /\ UNCHANGED <<svars, wire>>

\* one turn of the loop over ts.Exemplars
PrintExemplar ==
  /\ dec.pc = "exemplars"
  /\ dec.si <= Len(CurrentSeries.exemplars)
  /\ dec' = [dec EXCEPT !.stdout = Append(@, ExemplarLine(CurrentSeries.exemplars[dec.si])),
                        !.si = @ + 1]
  /\ UNCHANGED <<svars, wire>>

\* the loop over ts.Exemplars ends: next time series
EndExemplars ==
  /\ dec.pc = "exemplars"
  /\ dec.si > Len(CurrentSeries.exemplars)
  /\ dec' = [dec EXCEPT !.pc = "series", !.ti = @ + 1, !.si = 0]
  /\ UNCHANGED <<svars, wire>>

\* variant: the handler counts the request in http_requests_total itself
FinishCounted ==
  /\ dec.pc = "series"
  /\ dec.ti > Len(wire.timeseries)
  /\ dec' = [dec EXCEPT !.pc = "done", !.status = StatusOK]
  /\ totalRequests' = Inc(totalRequests, "/api/remote")
  /\ UNCHANGED <<server, count, responseStatus, httpDuration, req, started,
                 completed, polled, overlap, defaultRegisterer,
                 initErrs, wire>>

\* the loop over req.Timeseries ends and the handler returns without having
\* written: the server answers 200 with an empty body
Finish ==
  /\ dec.pc = "series"
  /\ dec.ti > Len(wire.timeseries)
  /\ dec' = [dec EXCEPT !.pc = "done", !.status = StatusOK]
  /\ UNCHANGED <<svars, wire>>

\* handleMetrics has returned and its response is sent: the request is over
\* and the process, still running, waits for the next one
RequestDone ==
  /\ dec.pc = "done"
  /\ server = "serving"
  /\ wire' = NoPayload
  /\ dec' = [NotCalled EXCEPT !.failed = dec.failed \/ wire.err # ""]
  /\ UNCHANGED svars

\* the server calls handleMetrics for a remote-write request, whose body
\* decodes to any of the payloads
HandleMetrics ==
  /\ dec.pc = "idle"
  /\ server = "serving"
  /\ wire' \in Payloads
  /\ dec' = [dec EXCEPT !.pc = "decode"]
  /\ UNCHANGED svars

NextDecode ==
  \/ HandleMetrics
  \/ RequestDone
  \/ DecodeFail
  \/ DecodeOK
  \/ PrintSeries
  \/ PrintSample
  \/ EndSamples
  \/ PrintExemplar
  \/ EndExemplars
  \/ Finish

SpecDecode == InitDecode /\ [][NextDecode]_vars


\* ------------------------------------------------------------ properties
Polls == {r \in InFlight : r.path = "/metrics"}

\* the polls whose text has been written
PollsDone == {r \in Polls : r.pc = "status"}

CounterSeries(x) == x[1] \in {"http_requests_total", "response_status"}

Range(f) == {f[i] : i \in DOMAIN f}

\* C1: once all N requests to / have completed, the hit count equals N (no
\* increment of the shared count is lost).
C1_NoLostUpdate ==
  (\A r \in InFlight : r.path # "/") => count = completed["/"]

\* C2: for every route template R, once the requests matched to R have all
\* completed, K of them, http_requests_total{path=R} is K and the histogram
\* of R holds K observations, whatever requests to other routes are doing; a
\* path without a series counts from 0.  While requests to R are in flight
\* the counter lies between K and K plus their number.
C2_CountsPerRoute ==
  \A R \in RouteSet :
    LET n == BagCardinality([r \in {q \in InFlight : q.path = R} |-> req[r]])
    IN /\ Value(httpDuration, R) = completed[R]
       /\ Value(totalRequests, R) >= completed[R]
       /\ Value(totalRequests, R) <= completed[R] + n
       /\ ((R \notin DOMAIN totalRequests) => completed[R] = 0)

\* two requests to / have completed, none is in flight, another route's is
C2_Witness ==
  /\ completed["/"] = 2
  /\ \A r \in InFlight : r.path # "/"
  /\ \E r \in InFlight : r.path = "/hits" /\ r.pc = "total"

\* C3: the response_status key a request increments is the decimal text of
\* the status its inner handler wrote through WriteHeader, and it is "200"
\* exactly when the handler wrote 200 or never called WriteHeader.
C3_StatusKeyIsWrittenStatus ==
  \A r \in InFlight :
    r.pc \in {"total", "observe"} =>
      /\ r.key = Itoa(r.sent)
      /\ r.calls # <<>> => r.key = Itoa(r.calls[1])
      /\ (r.key = "200") <=> (r.calls = <<>> \/ StatusOK \in Range(r.calls))
      /\ Value(responseStatus, r.key) >= 1

\* a request whose handler wrote 404 has incremented response_status{404}
C3_Witness ==
  \E r \in InFlight :
    /\ r.pc = "total"
    /\ r.calls = <<404>>
    /\ r.key = "404"

C5_CountNeverDecreases == [][count' >= count]_vars

\* C6: every http_requests_total and response_status series that an earlier
\* poll reported is reported by a later poll (one that began after the
\* earlier one was complete) with a value at least as large.
C6_PollsMonotonic ==
  \A r \in Polls :
    \A x \in DOMAIN r.base :
      (CounterSeries(x) /\ x[1] \in r.collected) =>
        /\ x \in DOMAIN r.out
        /\ r.out[x] >= r.base[x]

\* a later poll reports a larger value than an earlier one did
C6_Witness ==
  \E r \in PollsDone :
    \E x \in DOMAIN r.base :
      /\ CounterSeries(x)
      /\ x \in DOMAIN r.out
      /\ r.out[x] > r.base[x]

\* C7 as stated: two successive polls report the same set of series.
C7_SameSeriesEveryPoll ==
  \A r \in PollsDone :
    r.base # EmptyFn => DOMAIN r.out = DOMAIN r.base

\* C7, amended: a later poll reports every series an earlier poll reported,
\* and may report more; it reports the same set when the registry holds no
\* series beyond those.
C7_SeriesOnlyAdded ==
  \A r \in PollsDone :
    /\ DOMAIN r.base \subseteq DOMAIN r.out
    /\ (DOMAIN Registry = DOMAIN r.base) => (DOMAIN r.out = DOMAIN r.base)

\* the second poll after process start, with no other request in between,
\* reports series the first did not
C7_Witness ==
  \E r \in PollsDone :
    /\ started = 2
    /\ DOMAIN r.base = {<<"http_response_time_seconds", "/metrics">>}
    /\ DOMAIN r.out = DOMAIN r.base \cup
                        {<<"http_requests_total", "/metrics">>,
                         <<"response_status", "200">>}

\* C8: while the server runs, GET /api/healthz is answered with status 200
\* and the body {"alive": true}.
C8_HealthzAlive ==
  \A r \in InFlight :
    (r.method = "GET" /\ r.url = "/api/healthz" /\ r.sent # 0) =>
      /\ r.sent = StatusOK
      /\ r.body = "{\"alive\": true}"

\* C9: a POST to /api/remote is routed to the remote-write decoder and is
\* answered with a success status.
C9_RemoteWriteRouted ==
  \A r \in InFlight :
    (r.method = "POST" /\ r.url = "/api/remote" /\ r.sent # 0) =>
      /\ r.handler = "handleMetrics"
      /\ r.sent = StatusOK


\* number of lines the series before the i-th take
RECURSIVE LinesBefore(_)
LinesBefore(i) ==
  IF i <= 1 THEN 0
  ELSE LinesBefore(i - 1) + 1 + Len(wire.timeseries[i - 1].samples)
         + Len(wire.timeseries[i - 1].exemplars)

\* C10: for a decoded payload the decoder has written, when it returns, for
\* every time series in payload order: one line with the series' label set,
\* then one Sample line per sample in order, then one Exemplar line per
\* exemplar in order, and nothing else; the series {job="test"} with the
\* sample (1.0, 1000) yields exactly that label set and that pair.
C10_DecoderPrintsEverySeries ==
  (dec.pc = "done" /\ wire.err = "") =>
    LET ts == wire.timeseries IN
      /\ Len(dec.stdout) = LinesBefore(Len(ts) + 1)
      /\ \A i \in DOMAIN ts :
           /\ dec.stdout[LinesBefore(i) + 1] = SeriesLine(ts[i])
           /\ \A j \in DOMAIN ts[i].samples :
                dec.stdout[LinesBefore(i) + 1 + j] = SampleLine(ts[i].samples[j])
           /\ \A j \in DOMAIN ts[i].exemplars :
                dec.stdout[LinesBefore(i) + 1 + Len(ts[i].samples) + j]
                  = ExemplarLine(ts[i].exemplars[j])
      /\ (ts = << [labels |-> <<Label("job", "test")>>,
                   samples |-> <<[value |-> Pow10(FracDigits), timestamp |-> 1000]>>,
                   exemplars |-> <<>>] >>)
           => dec.stdout = << "{job=\"test\"}\n", "\tSample:  1.000000 1000\n" >>
      /\ (ts = << [labels |-> <<Label("__name__", "up"), Label("job", "test"),
                                Label("instance", "a")>>,
                   samples |-> <<>>,
                   exemplars |-> <<Exemplar(1)>>] >>)
           => dec.stdout = << "up{instance=\"a\", job=\"test\"}\n",
                              "\tExemplar:  {trace_id=\"abc\"} 0.500000 1001\n" >>

\* the decoder has returned from a payload of two series, the first with two
\* samples and an exemplar
C10_Witness ==
  /\ dec.pc = "done"
  /\ wire.err = ""
  /\ Len(wire.timeseries) = 2
  /\ Len(wire.timeseries[1].samples) = 2
  /\ Len(wire.timeseries[1].exemplars) = 1
  /\ Len(dec.stdout) >= 5

\* C11: when decoding the request body fails, handleMetrics answers with
\* status 400 and a body that is the decode error message (as http.Error
\* prints it, ended by a newline), prints no series, sample or exemplar line,
\* and the process goes on serving: the next request can be handled.
C11_DecodeFailureIs400 ==
  /\ (dec.pc = "done" /\ wire.err # "") =>
       /\ dec.status = StatusBadRequest
       /\ dec.body = wire.err \o "\n"
       /\ dec.stdout = <<>>
       /\ server = "serving"
       /\ ENABLED RequestDone
  /\ (dec.pc = "idle" /\ dec.failed) =>
       /\ server = "serving"
       /\ ENABLED HandleMetrics

\* a request decoded and printed by a process that answered 400 to an
\* earlier one
C11_Witness ==
  /\ dec.failed
  /\ dec.pc = "done"
  /\ wire.err = ""
  /\ dec.status = StatusOK
  /\ Len(dec.stdout) >= 2

\* C12: no step of handleMetrics, whether the body decodes or not, changes
\* http_requests_total, response_status, the duration histogram or the hit
\* count.
C12_DecoderLeavesCounters ==
  [][UNCHANGED <<totalRequests, responseStatus, httpDuration, count>>]_vars

\* a request that failed to decode has been answered by a process that had
\* already answered one, and the counters hold what they held at the start
C12_Witness ==
  /\ dec.failed
  /\ dec.pc = "done"
  /\ wire.err # ""
  /\ dec.status = StatusBadRequest
  /\ count = 1
  /\ totalRequests = ("/" :> 1)

\* the requests to / whose hit has been counted: past count += 1
HitCounted == {r \in InFlight : r.path = "/" /\ r.pc \in {"fs", "status", "total", "observe"}}

\* C13: when requests do not overlap, the hit count is the number of requests
\* matched to / that have passed the hit counter, and it changes only in the
\* step of such a request, by exactly +1; no step of a request to /hits, to
\* /metrics or to an undeclared path changes it.
C13_OnlyRootCountsHits ==
  /\ [](count = completed["/"] + Cardinality(HitCounted))
  /\ [][count' # count =>
          /\ count' = count + 1
          /\ \E r \in InFlight : r.path = "/" /\ r.pc = "store"]_vars

\* the third request, to /, has been counted; one request to / and one to
\* another path came before it
C13_Witness ==
  /\ started = 3
  /\ completed["/"] = 1
  /\ count = 2
  /\ \E r \in InFlight : r.path = "/" /\ r.pc = "fs"

\* C14: the step in which handleHit serves a GET /hits leaves the hit count
\* as it is and answers 200 with the decimal text of the value the count has
\* in that step ("2" when it is 2), whatever other requests are doing.
C14_HitsReturnsCount ==
  [][\A r \in InFlight :
       (r.path = "/hits" /\ r.pc = "next" /\ r \notin BagToSet(req')) =>
         /\ count' = count
         /\ \E r2 \in BagToSet(req') :
              /\ r2 = [r EXCEPT !.pc = "status", !.handler = "handleHit",
                                !.sent = StatusOK, !.body = Itoa(count)]
              /\ count = 2 => r2.body = "2"]_vars

\* a GET /hits was answered "1" and a later request to / has taken the count
\* to 2 since
C14_Witness ==
  /\ count = 2
  /\ \E r \in InFlight :
       /\ r.method = "GET"
       /\ r.path = "/hits"
       /\ r.pc = "status"
       /\ r.body = "1"

\* C15: a GET /api/hits, the path the frontend polls, is served by the
\* hit-count handler: it is answered 200 with a decimal hit count.
C15_ApiHitsRouted ==
  \A r \in InFlight :
    (r.method = "GET" /\ r.url = "/api/hits" /\ r.sent # 0) =>
      /\ r.handler = "handleHit"
      /\ r.sent = StatusOK
      /\ \E n \in 0..MaxRequests : r.body = Itoa(n)

\* value of a series in a rendering of the registry, 0 when it has none
SeriesValue(reg, x) == IF x \in DOMAIN reg THEN reg[x] ELSE 0

\* the series whose value the step changes
Changed == {x \in DOMAIN Registry' : Registry'[x] # SeriesValue(Registry, x)}

NumInFlight(pcs) ==
  BagCardinality([r \in {q \in InFlight : q.pc \in pcs} |-> req[r]])

\* sum of the values vec has at the keys S
RECURSIVE SumOver(_, _)
SumOver(vec, S) ==
  IF S = {} THEN 0
  ELSE LET k == CHOOSE k \in S : TRUE
       IN vec[k] + SumOver(vec, S \ {k})

\* sum of the values of the children of a counter vector
SumValues(vec) == SumOver(vec, DOMAIN vec)

\* C17: every request that has been answered, whatever its path, was answered
\* by a handler running inside the instrumentation middleware, and is counted
\* in response_status: the values of response_status add up to the number of
\* requests answered whose middleware has got to its increment.
C17_EveryRequestInstrumented ==
  /\ \A r \in InFlight : r.sent # 0 => (r.path \in RouteSet /\ r.statusCode # 0)
  /\ SumValues(responseStatus)
       = started - NumInFlight({"next", "store", "fs"}) - NumInFlight({"status"})

\* C18: whatever URLs are requested, the path labels of http_requests_total
\* and of the duration histogram are among the declared route templates
\* /metrics, / and /hits; the middleware runs only for a request with a
\* matched route, whose template is one of these and never empty, and a
\* request without one is answered by the router alone.
C18_PathLabelsAreTemplates ==
  /\ DOMAIN totalRequests \subseteq {"/", "/metrics", "/hits"}
  /\ DOMAIN httpDuration \subseteq {"/", "/metrics", "/hits"}
  /\ \A r \in InFlight :
       /\ r.pc # "answered" => (r.path = MatchRoute(r.url) /\ r.path \in RouteSet)
       /\ r.pc = "answered" =>
            (r.url \notin RouteSet /\ r.path = "" /\ r.statusCode = 0 /\ r.key = "")

\* two declared routes have been served and counted, and a request to an
\* undeclared path has been answered by the router
C18_Witness ==
  /\ DOMAIN totalRequests = {"/", "/hits"}
  /\ DOMAIN httpDuration = {"/", "/hits"}
  /\ \E r \in InFlight : r.pc = "answered" /\ r.url = "/api/healthz"

\* C19: when listening on the port fails at startup the process has exited:
\* no request was or is being handled, no counter has moved, and no step is
\* possible any more (no retry, no request served later).
C19_ListenFailureIsFatal ==
  server = "exited" =>
    /\ started = 0
    /\ req = EmptyBag
    /\ count = 0
    /\ Registry = EmptyFn
    /\ ~ ENABLED Next

\* the process has exited on a listen failure
C19_Witness ==
  /\ server = "exited"
  /\ started = 0

\* the handler main binds to a route template
HandlerOf(path) ==
  CASE path = "/metrics" -> "promhttp.Handler"
    [] path = "/" -> "FileServer"
    [] path = "/hits" -> "handleHit"

\* number of requests to route R in flight at one of the places pcs
NumAt(R, pcs) ==
  BagCardinality([r \in {q \in InFlight : q.path = R /\ q.pc \in pcs} |-> req[r]])

\* C20: within one instrumented request the timer is started first (the
\* histogram child exists from entry on), then the inner handler of the route
\* runs once and returns, then response_status is incremented, then
\* http_requests_total, then the duration is observed.  So the counters hold
\* exactly the requests that have got that far: response_status those past
\* its increment, http_requests_total{R} those past its own, the histogram of
\* R the completed ones; a request whose handler has not returned is in none.
C20_MiddlewareOrder ==
  /\ \A r \in InFlight :
       r.pc # "answered" =>
         /\ r.path \in DOMAIN httpDuration
         /\ (r.pc \in {"next", "store", "fs"}) => (r.handler = "" /\ r.sent = 0)
         /\ (r.pc \in {"status", "total", "observe"}) =>
              (r.handler = HandlerOf(r.path) /\ r.sent # 0)
         /\ (r.key # "") <=> (r.pc \in {"total", "observe"})
  /\ SumValues(responseStatus)
       = SumValues(completed) + NumInFlight({"total", "observe"})
  /\ \A R \in RouteSet :
       /\ Value(totalRequests, R) = completed[R] + NumAt(R, {"observe"})
       /\ Value(httpDuration, R) = completed[R]

\* a request to /hits has been answered and counted in response_status, and
\* not yet in http_requests_total nor in the histogram, while another request
\* is being served
C20_Witness ==
  /\ BagCardinality(req) = 2
  /\ \E r \in InFlight :
       /\ r.path = "/hits"
       /\ r.pc = "total"
       /\ Value(responseStatus, "200") >= 1
       /\ Value(totalRequests, "/hits") = 0
       /\ Value(httpDuration, "/hits") = 0

\* C21: a GET for a static asset under the root, such as /w3.css, is served
\* by the static file server, which answers 200 or its own not-found.
C21_StaticAssetServed ==
  \A r \in InFlight :
    (r.method = "GET" /\ r.url = "/w3.css" /\ r.sent # 0) =>
      /\ r.handler = "FileServer"
      /\ r.sent \in FsCodes

\* C22: whatever WriteHeader calls the inner handler makes, the request
\* increments exactly one response_status key, and that key is the code
\* delivered to the client: the code of the first call when there are several.
C22_StatusKeyIsDeliveredCode ==
  /\ SumValues(responseStatus)
       = SumValues(completed) + NumInFlight({"total", "observe"})
  /\ \A r \in InFlight :
       r.pc \in {"total", "observe"} =>
         /\ Value(responseStatus, r.key) >= 1
         /\ r.key = Itoa(r.sent)
         /\ Len(r.calls) > 1 => r.key = Itoa(r.calls[1])

\* C23: for every path R the histogram of R holds at most as many
\* observations as http_requests_total{R} counts, http_requests_total summed
\* over the paths is at most response_status summed over the codes, each of
\* these differences is at most the number of requests in flight, and with no
\* request in flight the three totals are equal.
C23_CounterRelations ==
  LET inflight == BagCardinality(req)
      total == SumValues(totalRequests)
      status == SumValues(responseStatus)
  IN /\ \A R \in DOMAIN httpDuration :
          /\ httpDuration[R] <= Value(totalRequests, R)
          /\ Value(totalRequests, R) - httpDuration[R] <= inflight
     /\ DOMAIN totalRequests \subseteq DOMAIN httpDuration
     /\ total <= status
     /\ status - total <= inflight
     /\ inflight = 0 =>
          (SumValues(httpDuration) = total /\ total = status)

\* two requests are past the increment of response_status and before that of
\* http_requests_total: the difference is the number of requests in flight
C23_Witness ==
  /\ NumInFlight({"total"}) = 2
  /\ SumValues(responseStatus) = SumValues(totalRequests) + 2
  /\ SumValues(totalRequests) = SumValues(httpDuration)

\* C24: a request to the path / is matched to the root route whatever its
\* method, and its hit is counted before the file server handles it: when
\* the file server is about to run the count already includes the request,
\* and it still does once the file server has answered, with 200 or with its
\* not-found (requests served one at a time, so that no increment is lost).
C24_HitCountedBeforeFileServer ==
  \A r \in InFlight :
    r.url = "/" =>
      /\ r.path = "/"
      /\ r.pc \in {"next", "store"} => (count = completed["/"] /\ r.sent = 0)
      /\ r.pc = "fs" =>
           (count = completed["/"] + 1 /\ r.sent = 0 /\ r.handler = "")
      /\ r.pc \in {"status", "total", "observe"} =>
           /\ count = completed["/"] + 1
           /\ r.handler = "FileServer"
           /\ r.sent \in FsCodes

\* the second request to /, a POST the file server answered with 404, has
\* been counted
C24_Witness ==
  /\ count = 2
  /\ \E r \in InFlight :
       /\ r.method = "POST"
       /\ r.path = "/"
       /\ r.handler = "FileServer"
       /\ r.sent = 404

\* number of requests to / that have entered the hit counter middleware:
\* the completed ones and those in flight past its first step
Entered ==
  completed["/"] + NumAt("/", {"store", "fs", "status", "total", "observe"})

\* C25: the hit count is at most the number of requests to / that have
\* entered the hit counter middleware, and so is http_requests_total{"/"};
\* when no request to / is in flight and no two requests to / have
\* overlapped, the hit count equals http_requests_total{"/"}.
C25_HitCountAndRootTotal ==
  /\ count <= Entered
  /\ Value(totalRequests, "/") <= Entered
  /\ ((\A r \in InFlight : r.path # "/") /\ ~ overlap) =>
       count = Value(totalRequests, "/")

\* two requests to / have been served one after the other, while a request
\* to /hits is in flight: both totals are 2
C25_Witness ==
  /\ ~ overlap
  /\ count = 2
  /\ Value(totalRequests, "/") = 2
  /\ \E r \in InFlight : r.path = "/hits"
  /\ \A r \in InFlight : r.path # "/"

\* C26: when requests do not overlap, the k-th poll of /metrics, the one
\* running after k-1 have completed, reports http_requests_total{"/metrics"}
\* as k-1, and no such series when it is the first: the poll is counted only
\* after the metrics handler has rendered.
C26_PollDoesNotCountItself ==
  \A r \in Polls :
    LET x == <<"http_requests_total", "/metrics">>
        k == completed["/metrics"] + 1
    IN ("http_requests_total" \in r.collected) =>
         /\ SeriesValue(r.out, x) = k - 1
         /\ (x \in DOMAIN r.out) <=> (k > 1)

\* the third poll in a row has rendered and reports the value 2
C26_Witness ==
  \E r \in PollsDone :
    /\ completed["/metrics"] = 2
    /\ <<"http_requests_total", "/metrics">> \in DOMAIN r.out
    /\ r.out[<<"http_requests_total", "/metrics">>] = 2

\* number of requests matched to a declared route that have entered the
\* middleware, in flight or completed
Instrumented == SumValues(completed) + BagCardinality(req) - NumInFlight({"answered"})

\* C27: under fair scheduling every request matched to a declared route
\* completes: again and again the server reaches a moment at which every such
\* request that has entered has returned and response_status,
\* http_requests_total and the histogram each hold one update per request;
\* and no request ever waits for another: the goroutine of every request in
\* flight can always take its next step.
C27_EveryRequestCompletes ==
  /\ [](\A r \in InFlight : r.pc # "answered" => ENABLED RequestStep(r))
  /\ []<>(/\ SumValues(completed) = Instrumented
          /\ SumValues(responseStatus) = Instrumented
          /\ SumValues(totalRequests) = Instrumented
          /\ SumValues(httpDuration) = Instrumented)

\* requests to / that were in flight together have all completed
C27_Witness ==
  /\ overlap
  /\ completed["/"] >= 2
  /\ req = EmptyBag

\* number of times the collector c is registered
TimesRegistered(c) ==
  Cardinality({i \in 1..Len(defaultRegisterer) : defaultRegisterer[i] = c})

\* C28: once package initialisation and init have run, each of the three
\* custom metrics is registered exactly once; the histogram is registered at
\* its creation, and the third Register of init, which hands it over a second
\* time, returns an error that is dropped and leaves the registry as it was.
\* The initialised process is in the state the server's specification
\* starts from.
C28_RegisteredExactlyOnce ==
  /\ [](server \notin {"loading", "init"} =>
         /\ \A fam \in Families : TimesRegistered(fam) = 1
         /\ Len(defaultRegisterer) = Cardinality(Families)
         /\ initErrs = <<"nil", "nil", "AlreadyRegisteredError">>)
  /\ [](server = "init" => TimesRegistered("http_response_time_seconds") = 1)
  /\ [](server = "starting" => Init)
  /\ [][Len(initErrs) = 2 /\ Len(initErrs') = 3 =>
          /\ InitOrder[3] = "http_response_time_seconds"
          /\ initErrs'[3] = "AlreadyRegisteredError"
          /\ defaultRegisterer' = defaultRegisterer]_vars

\* the initialised process is serving and has completed a request
C28_Witness ==
  /\ server = "serving"
  /\ Len(initErrs) = 3
  /\ initErrs[3] = "AlreadyRegisteredError"
  /\ SumValues(completed) > 0

====
